---- MODULE Spec2Model ----
(***************************************************************************)
(* Authentication core of nest-blog-prisma-mysql-api: AuthService          *)
(* (register, login, refreshTokens, logout, logoutAllDevices), the login   *)
(* endpoint behind LocalAuthGuard, the refresh gate (JwtRefreshGuard +     *)
(* JwtRefreshStrategy.validate), the access gate (JwtAuthGuard +           *)
(* JwtStrategy.validate + RolesGuard), the expired-row cleanup, and the    *)
(* two store tables they work on (User, RefreshTokens).                    *)
(*                                                                         *)
(* Every awaited store statement is one step: a handler that awaits more   *)
(* than one statement is a small process whose position is kept in a call  *)
(* slot, so that other handlers interleave exactly where the code awaits.  *)
(* The clock counts whole seconds, the granularity of a JWT's iat and exp. *)
(***************************************************************************)
EXTENDS Integers, FiniteSets, Sequences, TLC

\* ---------------------------------------------------------------- bounds
MaxTime == 2          \* the clock stops advancing here
MaxRows == 3          \* refresh-token rows ever inserted (auto-increment id)
MaxUsers == 4         \* user rows ever inserted (auto-increment id)
RefreshTtl == 1       \* JWT_REFRESH_EXPIRATION, in seconds of the model clock
AccessTtl == 1        \* JWT_ACCESS_EXPIRATION, in seconds of the model clock
RefreshCalls == {1, 2}    \* refresh requests that may be in flight together
CreateCalls == {1, 2}     \* UsersService.create calls that may be in flight together
RegisterCalls == {1, 2}   \* register requests that may be in flight together

\* ---------------------------------------------------------------- values
Devices == {"", "Phone"}          \* deviceInfo of the login body; "" is a falsy one (absent or empty)
LoginDevices == {""}              \* the labels the logins of Spec send

NoToken == [sub |-> 0, email |-> "", role |-> "", iat |-> 0, exp |-> 0]
NoRow == [id |-> 0, token |-> NoToken, userId |-> 0, expiresAt |-> 0, deviceInfo |-> ""]

VARIABLES
    users,        \* table User: set of rows
    nextUserId,   \* auto-increment of User.id
    tokens,       \* table RefreshTokens: set of rows
    nextTokenId,  \* auto-increment of RefreshTokens.id
    now,          \* the clock, in seconds
    rf,           \* refresh requests: call slot -> position and locals
    rg,           \* register requests: call slot -> position and locals
    lg,           \* the POST /auth/login request: position and locals
    ar,           \* the request to a route behind the access gate: position and locals
    issued,       \* history: refresh tokens returned to a client so far
    lineage,      \* history: row id -> id of the login row it descends from
    revoked,      \* history: login rows whose session was ended by a delete that is not a rotation
    last,         \* history: the handler whose deleteMany ran in the last step
    boot,         \* the process from bootstrap() to listening or exit: position, counters
    db,           \* whether the store accepts connections: "down" or "up"
    ce,           \* the call of calculateExpirationDate under study: its inputs and its result
    cu            \* the calls of UsersService.create: email, position in the call, result

vars == <<users, nextUserId, tokens, nextTokenId, now, rf, rg, lg, ar, issued, lineage, revoked, last, boot, db, ce, cu>>

\* ---------------------------------------------------------------- store helpers
\* argon2.hash / argon2.verify: the digest determines the plaintext it accepts
Hash(p) == <<"argon2", p>>

\* prisma.user.findUnique({ where: { id } }) / ({ where: { email } })
UserById(us, id) == {u \in us : u.id = id}
UserByEmail(us, email) == {u \in us : u.email = email}

\* prisma.refreshTokens.findFirst({ where: { token } }): the matching rows;
\* the query has no orderBy, so any of them may be the one returned
RowsByToken(rows, t) == {r \in rows : r.token = t}
RowsByUser(rows, uid) == {r \in rows : r.userId = uid}
RowIds(rows) == {r.id : r \in rows}

\* jwtService.sign(payload, { secret, expiresIn }): the string is a function
\* of the payload and of the second it is signed in (iat, exp); nothing else
\* enters it
Sign(user, at, ttl) ==
    [sub |-> user.id, email |-> user.email, role |-> user.role,
     iat |-> at, exp |-> at + ttl]

\* passport-jwt with ignoreExpiration: false rejects once the clock reaches exp
JwtExpired(t, at) == at >= t.exp

\* calculateExpirationDate(JWT_REFRESH_EXPIRATION)
calculateExpirationDate(at) == at + RefreshTtl

\* tokenRecord.expiresAt < new Date()
RowExpired(r, at) == r.expiresAt < at

\* what refreshTokens does with a presented token, read off the table: it
\* rotates when findFirst can return a row that is not expired
Accepted(rows, t, at) == \E r \in RowsByToken(rows, t) : ~RowExpired(r, at)

\* ---------------------------------------------------------------- initial state
SeedUsers ==
    { [id |-> 1, email |-> "a@x.io", password |-> Hash("pa"), role |-> "USER", lastLogin |-> -1],
      [id |-> 2, email |-> "b@x.io", password |-> Hash("pb"), role |-> "USER", lastLogin |-> -1] }

IdleRefresh ==
    [pc |-> "idle", presented |-> NoToken, rec |-> NoRow,
     newToken |-> NoToken, newExp |-> 0, result |-> "none"]

IdleCreate == [pc |-> "idle", email |-> "", result |-> "none"]
IdleRegister == [pc |-> "idle", email |-> "", role |-> "", result |-> "none"]

\* what a guard attaches to the request as request.user: the selected
\* columns of the user row, the password not among them
NoUser == [id |-> 0, email |-> "", role |-> ""]
UserView(u) == [id |-> u.id, email |-> u.email, role |-> u.role]

IdleLogin ==
    [pc |-> "idle", email |-> "", deviceInfo |-> "", user |-> NoUser,
     result |-> "none", refreshToken |-> NoToken, view |-> NoUser]

IdleAccess ==
    [pc |-> "idle", route |-> "", token |-> NoToken, user |-> NoUser,
     target |-> 0, role |-> "", result |-> "none",
     scheme |-> "", refresh |-> NoToken]

\* what the last step was, when it was a logout that removed rows or a
\* cleanup: the handler, the user it was called for, the count deleteMany
\* reported and the error the handler threw
Did(op, uid, count) == [op |-> op, user |-> uid, count |-> count, error |-> "none"]
Threw(op, error) == [op |-> op, user |-> 0, count |-> 0, error |-> error]

NoOp == Did("none", 0, 0)

\* the process of main.ts: pc is where bootstrap stands, retryCount its
\* parameter, reconnectAttempts the field of the PrismaService instance,
\* exitCode the argument of process.exit (-1: the process runs); attempts and
\* delays count the $connect calls and the waits of the connectWithRetry call
\* in progress
Booted ==
    [pc |-> "listening", retryCount |-> 0, reconnectAttempts |-> 0, exitCode |-> -1,
     attempts |-> 1, delays |-> 0, elapsed |-> 0]

\* no call of calculateExpirationDate made yet
NoLifetime == [pc |-> "idle", n |-> 0, expiresIn |-> <<>>, at |-> 0, result |-> [nan |-> FALSE, v |-> 0]]

\* the tables as seeded and no request in flight
InitStore ==
    /\ ce = NoLifetime
    /\ cu = [q \in CreateCalls |-> IdleCreate]
    /\ users = SeedUsers
    /\ nextUserId = 3
    /\ tokens = {}
    /\ nextTokenId = 1
    /\ now = 0
    /\ rf = [p \in RefreshCalls |-> IdleRefresh]
    /\ rg = [q \in RegisterCalls |-> IdleRegister]
    /\ lg = IdleLogin
    /\ ar = IdleAccess
    /\ issued = {}
    /\ lineage = <<>>
    /\ revoked = {}
    /\ last = NoOp

\* the application up and the store reachable, as the request handlers find it
Init ==
    /\ InitStore
    /\ boot = Booted
    /\ db = "up"

\* ---------------------------------------------------------------- clock
Tick ==
    /\ now < MaxTime
    /\ now' = now + 1
    /\ last' = NoOp
    /\ UNCHANGED <<users, nextUserId, tokens, nextTokenId, rf, rg, issued, lineage, revoked, lg, ar, boot, db, ce, cu>>

\* ---------------------------------------------------------------- AuthService.login
\* storeRefreshToken: refreshTokens.create, then user.update({ lastLogin })
storeRefreshToken(uid, refreshToken, expirationDate, deviceInfo) ==
    /\ tokens' = tokens \cup
         { [id |-> nextTokenId, token |-> refreshToken, userId |-> uid,
            expiresAt |-> expirationDate,
            deviceInfo |-> IF deviceInfo = "" THEN "Unknown Device" ELSE deviceInfo] }
    /\ nextTokenId' = nextTokenId + 1
    /\ users' = {IF u.id = uid THEN [u EXCEPT !.lastLogin = now] ELSE u : u \in users}

login(user, deviceInfo) ==
    LET refreshToken == Sign(user, now, RefreshTtl) IN
    /\ nextTokenId <= MaxRows
    /\ storeRefreshToken(user.id, refreshToken, calculateExpirationDate(now),
                         IF deviceInfo = "" THEN "Unknown Device" ELSE deviceInfo)
    /\ issued' = issued \cup {refreshToken}
    /\ lineage' = (nextTokenId :> nextTokenId) @@ lineage
    /\ last' = NoOp
    /\ UNCHANGED <<nextUserId, now, rf, rg, revoked, ar, boot, db, ce, cu>>

Login == \E user \in users, d \in LoginDevices : login(user, d) /\ UNCHANGED <<lg, ar>>

\* ---------------------------------------------------------------- POST /auth/login
\* the credentials a client may send
LoginEmails == {"a@x.io", "b@x.io", "z@x.io"}
LoginPasswords == {"pa", "pb"}

\* argon2.verify(user.password, password)
Verify(digest, password) == digest = Hash(password)

\* AuthService.validateUser: the user without the password, or null (NoUser)
\* when no row has the email or the password does not verify
validateUser(us, email, password) ==
    LET found == UserByEmail(us, email) IN
    IF found = {} THEN NoUser
    ELSE LET user == CHOOSE u \in found : TRUE IN
         IF Verify(user.password, password) THEN UserView(user) ELSE NoUser

\* variant: an unknown email is reported as such
LocalStrategyValidateTellsApart(us, email, password) ==
    IF UserByEmail(us, email) = {} THEN "UserNotFound"
    ELSE IF validateUser(us, email, password) = NoUser THEN "InvalidEmailOrPassword"
    ELSE "pass"

\* LocalStrategy.validate: UnauthorizedException('Invalid email or password')
\* when validateUser returns null
LocalStrategyValidate(us, email, password) ==
    IF validateUser(us, email, password) = NoUser THEN "InvalidEmailOrPassword" ELSE "pass"

\* LocalAuthGuard.handleRequest: the strategy's error goes out as it is
LocalAuthGuard(us, email, password) == LocalStrategyValidate(us, email, password)

\* The request up to the handler: LocalAuthGuard reads the raw body, then the
\* ValidationPipe checks it against LoginDto (bodyOk: it conforms).
LoginAttempt(email, password, deviceInfo, bodyOk) ==
    LET res == LocalAuthGuard(users, email, password) IN
    /\ lg.pc \in {"idle", "done"}
    /\ lg' = IF res # "pass"
             THEN [IdleLogin EXCEPT !.pc = "done", !.email = email, !.result = res]
             ELSE IF ~bodyOk
             THEN [IdleLogin EXCEPT !.pc = "done", !.email = email, !.result = "BadRequest"]
             ELSE [IdleLogin EXCEPT !.pc = "store", !.email = email, !.deviceInfo = deviceInfo,
                                    !.user = validateUser(users, email, password)]
    /\ last' = NoOp
    /\ UNCHANGED <<users, nextUserId, tokens, nextTokenId, now, rf, rg, issued, lineage, revoked, ar, boot, db, ce, cu>>

\* variant: the user row as stored goes into the response
loginUserViewWholeRow(us, user) == CHOOSE u \in us : u.id = user.id

\* the user object of login's return value: id, email, role (and bio)
loginUserView(us, user) == [id |-> user.id, email |-> user.email, role |-> user.role]

\* AuthController.login: AuthService.login with request.user and
\* loginDto.deviceInfo, then the response
LoginHandler ==
    /\ lg.pc = "store"
    /\ login(lg.user, lg.deviceInfo)
    /\ lg' = [lg EXCEPT !.pc = "done", !.result = "ok",
                        !.refreshToken = Sign(lg.user, now, RefreshTtl),
                        !.view = loginUserView(users, lg.user)]
    /\ UNCHANGED <<ar, boot, db, ce, cu>>

\* ---------------------------------------------------------------- POST /auth/refresh
\* The tokens a client may present: any token handed out so far, and one
\* validly signed token that may never have been stored.
StrayToken == Sign(CHOOSE u \in SeedUsers : u.id = 1, MaxTime, RefreshTtl)
Presentable == issued \cup {StrayToken}

\* A request enters either at the refresh gate in front of the endpoint
\* (AuthController.refresh) or at AuthService.refreshTokens directly.
RefreshStart(p, t, viaGate) ==
    /\ rf[p].pc \in {"idle", "done"}
    /\ rf' = [rf EXCEPT ![p] = [IdleRefresh EXCEPT !.pc = IF viaGate THEN "gate" ELSE "lookup",
                                                   !.presented = t]]
    /\ last' = NoOp
    /\ UNCHANGED <<users, nextUserId, tokens, nextTokenId, now, rg, issued, lineage, revoked, lg, ar, boot, db, ce, cu>>

\* JwtRefreshGuard: passport-jwt verifies signature and exp, then
\* JwtRefreshStrategy.validate reads the user with the rows holding the token.
\* The result is the exception the guard lets through, or "pass".
\* variant: the payload's user is read, the rows are not consulted
validateSignatureOnly(us, rows, t, at) ==
    IF UserById(us, t.sub) = {} THEN "InvalidRefreshTokenOrUserNotFound" ELSE "pass"

\* JwtRefreshStrategy.validate after it has read the token string off the
\* request: the user of payload.sub with the rows holding that string
validatePayload(us, rows, sub, refreshToken, at) ==
    LET user == UserById(us, sub)
        mine == {r \in rows : r.userId = sub /\ r.token = refreshToken}
    IN  IF user = {} \/ mine = {} THEN "InvalidRefreshTokenOrUserNotFound"
        ELSE IF \E r \in mine : RowExpired(r, at) THEN "RefreshTokenHasExpired"
        ELSE "pass"

\* validate for a request whose verified token and whose token string are the same
validate(us, rows, t, at) == validatePayload(us, rows, t.sub, t, at)

JwtRefreshGuard(us, rows, t, at) ==
    IF JwtExpired(t, at) THEN "InvalidOrExpiredRefreshToken"
    ELSE validate(us, rows, t, at)

RefreshGate(p) ==
    LET res == JwtRefreshGuard(users, tokens, rf[p].presented, now) IN
    /\ rf[p].pc = "gate"
    /\ rf' = [rf EXCEPT ![p].pc = IF res = "pass" THEN "lookup" ELSE "done",
                        ![p].result = IF res = "pass" THEN "none" ELSE res]
    /\ last' = NoOp
    /\ UNCHANGED <<users, nextUserId, tokens, nextTokenId, now, rg, issued, lineage, revoked, lg, ar, boot, db, ce, cu>>

\* refreshTokens, up to the first statement after findFirst: no row throws,
\* an expired row goes on to its delete, a valid row gets its successor
\* signed and dated before the transaction is sent.
RefreshLookup(p) ==
    LET t == rf[p].presented
        found == RowsByToken(tokens, t)
    IN
    /\ rf[p].pc = "lookup"
    /\ IF found = {}
       THEN /\ rf' = [rf EXCEPT ![p].pc = "done", ![p].result = "InvalidRefreshToken"]
            /\ last' = NoOp
       ELSE \E rec \in found :
            /\ last' = NoOp
            /\ IF RowExpired(rec, now)
               THEN rf' = [rf EXCEPT ![p].pc = "expired", ![p].rec = rec]
               ELSE \E user \in UserById(users, rec.userId) :
                    rf' = [rf EXCEPT ![p].pc = "rotate", ![p].rec = rec,
                                     ![p].newToken = Sign(user, now, RefreshTtl),
                                     ![p].newExp = calculateExpirationDate(now)]
    /\ UNCHANGED <<users, nextUserId, tokens, nextTokenId, now, rg, issued, lineage, revoked, lg, ar, boot, db, ce, cu>>

\* prisma.refreshTokens.delete({ where: { id } }): a missing row is an error
\* of the store (P2025), which no handler here catches
DeleteById(rows, id) ==
    [ok |-> id \in RowIds(rows), rows |-> {r \in rows : r.id # id}]

\* refreshTokens, the delete of an expired row and the throw after it
RefreshDeleteExpired(p) ==
    LET d == DeleteById(tokens, rf[p].rec.id)
        res == IF d.ok THEN "RefreshTokenExpired" ELSE "RecordNotFound"
    IN
    /\ rf[p].pc = "expired"
    /\ tokens' = d.rows
    /\ revoked' = IF d.ok THEN revoked \cup {lineage[rf[p].rec.id]} ELSE revoked
    /\ rf' = [rf EXCEPT ![p].pc = "done", ![p].result = res]
    /\ last' = NoOp
    /\ UNCHANGED <<users, nextUserId, nextTokenId, now, rg, issued, lineage, lg, ar, boot, db, ce, cu>>

\* prisma.$transaction([delete(old.id), create(new)]): the statements run in
\* order inside one store transaction; fault names the statement at which the
\* store fails (0: none). A failed statement rolls the transaction back.
\* variant: the create is sent without the delete taking effect
RotateTransactionKeepsOld(rows, oldId, newRow, fault) ==
    LET d == DeleteById(rows, oldId) IN
    IF fault # 0 \/ ~d.ok THEN [ok |-> FALSE, rows |-> rows,
                                result |-> IF ~d.ok THEN "RecordNotFound" ELSE "StoreFailure"]
    ELSE [ok |-> TRUE, rows |-> rows \cup {newRow}, result |-> "ok"]

\* variant: two separate statements, no rollback of the delete when the create fails
RotateTransactionNoRollback(rows, oldId, newRow, fault) ==
    LET d == DeleteById(rows, oldId) IN
    IF fault = 1 \/ ~d.ok THEN [ok |-> FALSE, rows |-> rows,
                                result |-> IF ~d.ok THEN "RecordNotFound" ELSE "StoreFailure"]
    ELSE IF fault = 2 THEN [ok |-> FALSE, rows |-> d.rows, result |-> "StoreFailure"]
    ELSE [ok |-> TRUE, rows |-> d.rows \cup {newRow}, result |-> "ok"]

\* variant: the delete is a deleteMany, which a missing row does not fail
RotateTransactionDeleteMany(rows, oldId, newRow, fault) ==
    LET d == DeleteById(rows, oldId) IN
    IF fault # 0 THEN [ok |-> FALSE, rows |-> rows, result |-> "StoreFailure"]
    ELSE [ok |-> TRUE, rows |-> d.rows \cup {newRow}, result |-> "ok"]

RotateTransaction(rows, oldId, newRow, fault) ==
    LET d == DeleteById(rows, oldId) IN
    IF fault = 1 \/ ~d.ok THEN [ok |-> FALSE, rows |-> rows,
                                result |-> IF ~d.ok THEN "RecordNotFound" ELSE "StoreFailure"]
    ELSE IF fault = 2 THEN [ok |-> FALSE, rows |-> rows, result |-> "StoreFailure"]
    ELSE [ok |-> TRUE, rows |-> d.rows \cup {newRow}, result |-> "ok"]

\* variant: the new row gets the default label
rotationRowDefaultLabel(old, id, newRefreshToken, expirationDate) ==
    [id |-> id, token |-> newRefreshToken, userId |-> old.userId,
     expiresAt |-> expirationDate, deviceInfo |-> "Unknown Device"]

\* the data of the transaction's create: deviceInfo: tokenRecord.deviceInfo,
\* user: { connect: { id: tokenRecord.userId } }
rotationRow(old, id, newRefreshToken, expirationDate) ==
    [id |-> id, token |-> newRefreshToken, userId |-> old.userId,
     expiresAt |-> expirationDate, deviceInfo |-> old.deviceInfo]

\* refreshTokens, the rotation transaction and the return after it
RefreshRotate(p, fault) ==
    LET old == rf[p].rec
        newRow == rotationRow(old, nextTokenId, rf[p].newToken, rf[p].newExp)
        tx == RotateTransaction(tokens, old.id, newRow, fault)
    IN
    /\ rf[p].pc = "rotate"
    /\ nextTokenId <= MaxRows
    /\ tokens' = tx.rows
    /\ nextTokenId' = IF tx.ok THEN nextTokenId + 1 ELSE nextTokenId
    /\ issued' = IF tx.ok THEN issued \cup {rf[p].newToken} ELSE issued
    /\ lineage' = IF tx.ok THEN (nextTokenId :> lineage[old.id]) @@ lineage ELSE lineage
    /\ rf' = [rf EXCEPT ![p].pc = "done", ![p].result = tx.result, ![p].newExp = 0]
    /\ last' = NoOp
    /\ UNCHANGED <<users, nextUserId, now, rg, revoked, lg, ar, boot, db, ce, cu>>

\* the server stops while the transaction is open: the store rolls it back
RefreshCrash(p) ==
    /\ rf[p].pc = "rotate"
    /\ rf' = [rf EXCEPT ![p].pc = "done", ![p].result = "Crashed",
                        ![p].newToken = NoToken, ![p].newExp = 0]
    /\ last' = NoOp
    /\ UNCHANGED <<users, nextUserId, tokens, nextTokenId, now, rg, issued, lineage, revoked, lg, ar, boot, db, ce, cu>>

\* ---------------------------------------------------------------- logout
\* the where clause of logout: { userId, token: refreshToken }
logoutWhereOtherOwners(r, uid, refreshToken) == r.token = refreshToken
logoutWhere(r, uid, refreshToken) == r.userId = uid /\ r.token = refreshToken

\* the where clause of logoutAllDevices: { userId }
logoutAllWhereRowId(r, uid) == r.id = uid
logoutAllWhere(r, uid) == r.userId = uid

\* AuthService.logout: deleteMany({ where: { userId, token } })
logout(uid, refreshToken) ==
    LET gone == {r \in tokens : logoutWhere(r, uid, refreshToken)} IN
    /\ tokens' = tokens \ gone
    /\ revoked' = revoked \cup {lineage[r.id] : r \in gone}
    /\ last' = IF gone = {} THEN NoOp ELSE Did("logout", uid, Cardinality(gone))
    /\ UNCHANGED <<users, nextUserId, nextTokenId, now, rf, rg, issued, lineage, lg, ar, boot, db, ce, cu>>

\* AuthService.logoutAllDevices: deleteMany({ where: { userId } })
logoutAllDevices(uid) ==
    LET gone == {r \in tokens : logoutAllWhere(r, uid)} IN
    /\ tokens' = tokens \ gone
    /\ revoked' = revoked \cup {lineage[r.id] : r \in gone}
    /\ last' = IF gone = {} THEN NoOp ELSE Did("logoutAll", uid, Cardinality(gone))
    /\ UNCHANGED <<users, nextUserId, nextTokenId, now, rf, rg, issued, lineage, lg, ar, boot, db, ce, cu>>

Logout == \E u \in users, t \in Presentable : logout(u.id, t)
LogoutAll == \E u \in users : logoutAllDevices(u.id)

\* ---------------------------------------------------------------- expired-row cleanup
\* variant: rows expiring this very second go too
cleanupWhereNotAfter(r, at) == r.expiresAt <= at

\* the where clause of the cleanup: { expiresAt: { lt: new Date() } }
cleanupWhere(r, at) == r.expiresAt < at

\* AuthCleanupService.cleanupExpiredTokens: the deleteMany and the count it
\* returns; when the store fails the statement, the catch block logs the
\* error and throws it again
cleanupExpiredTokens(rows, at, failed) ==
    LET gone == {r \in rows : cleanupWhere(r, at)} IN
    IF failed THEN [rows |-> rows, count |-> 0, logged |-> TRUE, error |-> "StoreFailure"]
    ELSE [rows |-> rows \ gone, count |-> Cardinality(gone), logged |-> FALSE, error |-> "none"]

\* who runs the cleanup: the @Cron schedule, or an ADMIN through
\* AuthController.cleanExpiredTokensManually and AuthService.cleanExpiredTokens
CleanupCallers == {"cron", "admin"}

Cleanup(caller, failed) ==
    LET c == cleanupExpiredTokens(tokens, now, failed) IN
    /\ tokens' = c.rows
    /\ revoked' = revoked \cup {lineage[r.id] : r \in tokens \ c.rows}
    /\ last' = IF c.error = "none" THEN Did(caller, 0, c.count) ELSE Threw(caller, c.error)
    /\ UNCHANGED <<users, nextUserId, nextTokenId, now, rf, rg, lg, ar, issued, lineage, boot, db, ce, cu>>

\* ---------------------------------------------------------------- AuthService.register
\* RegisterDto.email: @Transform trim().toLowerCase(), applied by the global
\* ValidationPipe({ transform: true }) before the handler runs
RawEmails == {"a@x.io", "c@x.io", " C@x.io"}
TrimLower(raw) == IF raw = " C@x.io" THEN "c@x.io" ELSE raw

\* RegisterDto.role is optional ("" is absent); the column default fills it
RoleInputs == {"", "USER", "ADMIN"}
DefaultRole == "USER"

\* the unique index on User.email, the store's check on every insert
EmailTaken(us, email) == UserByEmail(us, email) # {}

RegisterStart(q, raw, role) ==
    /\ rg[q].pc \in {"idle", "done"}
    /\ rg' = [rg EXCEPT ![q] = [pc |-> "check", email |-> TrimLower(raw), role |-> role,
                                result |-> "none"]]
    /\ UNCHANGED <<users, nextUserId, tokens, nextTokenId, now, rf, issued, lineage, revoked, last, lg, ar, boot, db, ce, cu>>

\* variant: the existence check finds nobody
existingUserNone(us, email) == {}

\* const existingUser = findUnique({ where: { email: registerDto.email } })
existingUser(us, email) == UserByEmail(us, email)

\* inside the interactive transaction: the existence check and the
\* ConflictException that the catch block rethrows
RegisterCheck(q) ==
    /\ rg[q].pc = "check"
    /\ rg' = IF existingUser(users, rg[q].email) # {}
             THEN [rg EXCEPT ![q].pc = "done", ![q].result = "Conflict"]
             ELSE [rg EXCEPT ![q].pc = "create"]
    /\ UNCHANGED <<users, nextUserId, tokens, nextTokenId, now, rf, issued, lineage, revoked, last, lg, ar, boot, db, ce, cu>>

\* the error the catch block of register lets out for an error of the insert:
\* only a ConflictException passes, everything else becomes
\* InternalServerErrorException('Failed to register user')
registerCatch(error) == IF error = "Conflict" THEN "Conflict" ELSE "InternalServerError"

\* user.create inside the transaction, the commit, and the return or the catch
RegisterCreate(q) ==
    /\ rg[q].pc = "create"
    /\ nextUserId <= MaxUsers
    /\ IF EmailTaken(users, rg[q].email)
       THEN /\ rg' = [rg EXCEPT ![q].pc = "done", ![q].result = registerCatch("P2002")]
            /\ UNCHANGED <<users, nextUserId>>
       ELSE /\ users' = users \cup
                 { [id |-> nextUserId, email |-> rg[q].email, password |-> Hash("pw"),
                    role |-> IF rg[q].role = "" THEN DefaultRole ELSE rg[q].role,
                    lastLogin |-> -1] }
            /\ nextUserId' = nextUserId + 1
            /\ rg' = [rg EXCEPT ![q].pc = "done", ![q].result = "ok"]
    /\ UNCHANGED <<tokens, nextTokenId, now, rf, issued, lineage, revoked, last, lg, ar, boot, db, ce, cu>>

\* ---------------------------------------------------------------- token transport
\* jwtService.sign with JWT_ACCESS_SECRET: login and refreshTokens sign the
\* access token from the payload, and in the second, of the refresh token
\* they return with it. The records of Sign are the tokens signed with
\* JWT_REFRESH_SECRET; they carry no secret field.
AccessOf(t) ==
    [sub |-> t.sub, email |-> t.email, role |-> t.role, iat |-> t.iat,
     exp |-> t.iat + AccessTtl, secret |-> "JWT_ACCESS_SECRET"]
AccessIssued == {AccessOf(t) : t \in issued}

\* a token signed with a secret the server does not hold
Forged ==
    [sub |-> 1, email |-> "a@x.io", role |-> "ADMIN", iat |-> 0,
     exp |-> MaxTime + 1, secret |-> "unknown"]

\* jwt.verify against secretOrKey
VerifiedAccess(t) == "secret" \in DOMAIN t /\ t.secret = "JWT_ACCESS_SECRET"
VerifiedRefresh(t) == t # NoToken /\ "secret" \notin DOMAIN t

\* a request, as far as the gates read it: the cookie carrying the gate's
\* token (access_token / refresh_token) and the Authorization header, split
\* into scheme and credentials ("" and NoToken: no header)
Request(cookie, scheme, bearer) == [cookie |-> cookie, scheme |-> scheme, bearer |-> bearer]
Schemes == {"", "Bearer", "bearer"}

\* request.cookies: bootstrap installs no cookie-parsing middleware, so the
\* property is undefined on every request, whatever Cookie header came in
CookieParser == FALSE
RequestCookie(req) == IF CookieParser THEN req.cookie ELSE NoToken

\* ExtractJwt.fromAuthHeaderAsBearerToken(): the scheme is compared in lower case
AuthHeaderAsBearerToken(req) ==
    IF req.scheme \in {"Bearer", "bearer"} THEN req.bearer ELSE NoToken

\* ExtractJwt.fromExtractors([cookie, header]): the first extractor that yields a token
fromExtractors(req) ==
    IF RequestCookie(req) # NoToken THEN RequestCookie(req) ELSE AuthHeaderAsBearerToken(req)

\* a header value that .replace('Bearer', '') left as it was: no token string
Unstripped == [NoToken EXCEPT !.email = "bearer <credentials>"]

\* validate's own read of the token string:
\* req.cookies?.['refresh_token'] || req.get('authorization')?.replace('Bearer', '').trim()
RefreshTokenOfRequest(req) ==
    IF RequestCookie(req) # NoToken THEN RequestCookie(req)
    ELSE IF req.scheme = "" THEN NoToken
    ELSE IF req.scheme = "Bearer" THEN req.bearer
    ELSE Unstripped

\* JwtRefreshGuard on a request: passport-jwt extracts and verifies, then
\* validate(req, payload) looks the request's token string up
JwtRefreshGuardRequest(us, rows, req, at) ==
    LET t == fromExtractors(req)
        refreshToken == RefreshTokenOfRequest(req)
    IN  IF t = NoToken \/ ~VerifiedRefresh(t) \/ JwtExpired(t, at)
        THEN "InvalidOrExpiredRefreshToken"
        ELSE IF refreshToken = NoToken THEN "RefreshTokenNotFound"
        ELSE validatePayload(us, rows, t.sub, refreshToken, at)

\* POST /auth/refresh as a request: the gate on cookie and header; a request
\* it lets through goes on to refreshTokens(user.refreshToken) with the
\* string validate read
RefreshRequest(p, req) ==
    LET res == JwtRefreshGuardRequest(users, tokens, req, now) IN
    /\ rf[p].pc \in {"idle", "done"}
    /\ rf' = [rf EXCEPT ![p] =
                IF res = "pass"
                THEN [IdleRefresh EXCEPT !.pc = "lookup", !.presented = RefreshTokenOfRequest(req)]
                ELSE [IdleRefresh EXCEPT !.pc = "done", !.presented = fromExtractors(req),
                                         !.result = res]]
    /\ last' = NoOp
    /\ UNCHANGED <<users, nextUserId, tokens, nextTokenId, now, rg, lg, ar, issued, lineage, revoked, boot, db, ce, cu>>

\* ---------------------------------------------------------------- the access gate
UserRoles == {"USER", "ADMIN"}

\* a route, as the guards see it: @Public(), @Roles(...) (declared: the
\* metadata is set) and what its handler does
Route(name, public, declared, roles, op) ==
    [name |-> name, public |-> public, declared |-> declared, roles |-> roles, op |-> op]

\* routes of the controllers
Routes ==
    { Route("GET /posts", TRUE, FALSE, {}, "read"),
      Route("GET /auth/profile", FALSE, FALSE, {}, "read"),
      Route("PATCH /users/:id", FALSE, FALSE, {}, "update"),
      Route("DELETE /users/:id", FALSE, TRUE, {"ADMIN"}, "remove") }

\* POST /auth/logout: behind the access gate, no roles
LogoutRoute == Route("POST /auth/logout", FALSE, FALSE, {}, "logout")

\* decorations no controller uses, which the guards accept all the same
OtherRoutes ==
    { Route("@Public @Roles(ADMIN)", TRUE, TRUE, {"ADMIN"}, "read"),
      Route("@Roles()", FALSE, TRUE, {}, "read"),
      Route("@Roles(ADMIN, USER)", FALSE, TRUE, {"ADMIN", "USER"}, "read") }

\* variant: expiry is not looked at
verifyAccessIgnoreExpiration(t, at) == t # NoToken /\ VerifiedAccess(t)

\* passport-jwt for the access token: signature and exp
verifyAccess(t, at) == t # NoToken /\ VerifiedAccess(t) /\ ~JwtExpired(t, at)

\* variant: the identity is taken from the token's claims
JwtStrategyValidateFromClaims(us, payload) ==
    [id |-> payload.sub, email |-> payload.email, role |-> payload.role]

\* JwtStrategy.validate: the user of payload.sub as stored now, or NoUser
\* for UnauthorizedException('User no longer exists')
JwtStrategyValidate(us, payload) ==
    LET found == UserById(us, payload.sub) IN
    IF found = {} THEN NoUser ELSE UserView(CHOOSE u \in found : TRUE)

\* what canActivate did: its decision, request.user, and whether it
\* verified a token and read the store on the way
Decision(d, user, verified, lookedUp) ==
    [decision |-> d, user |-> user, verified |-> verified, lookedUp |-> lookedUp]

\* variant: the public flag is not consulted
JwtAuthGuardNoPublic(route, req, us, at) ==
    LET t == fromExtractors(req) IN
    IF ~verifyAccess(t, at) THEN Decision("InvalidOrExpiredAccessToken", NoUser, t # NoToken, FALSE)
    ELSE LET user == JwtStrategyValidate(us, t) IN
         IF user = NoUser THEN Decision("UserNoLongerExists", NoUser, TRUE, TRUE)
         ELSE Decision("allow", user, TRUE, TRUE)

\* JwtAuthGuard.canActivate and handleRequest
JwtAuthGuard(route, req, us, at) ==
    LET t == fromExtractors(req) IN
    IF route.public THEN Decision("allow", NoUser, FALSE, FALSE)
    ELSE IF ~verifyAccess(t, at) THEN Decision("InvalidOrExpiredAccessToken", NoUser, t # NoToken, FALSE)
    ELSE LET user == JwtStrategyValidate(us, t) IN
         IF user = NoUser THEN Decision("UserNoLongerExists", NoUser, TRUE, TRUE)
         ELSE Decision("allow", user, TRUE, TRUE)

\* variant: a request without a user passes
RolesGuardLetsAnonymousIn(route, user) ==
    IF ~route.declared \/ user = NoUser THEN "allow"
    ELSE IF user.role \in route.roles THEN "allow"
    ELSE "ForbiddenAccessDenied"

\* RolesGuard.canActivate
RolesGuard(route, user) ==
    IF ~route.declared THEN "allow"
    ELSE IF user = NoUser THEN "ForbiddenUserNotAuthenticated"
    ELSE IF user.role \in route.roles THEN "allow"
    ELSE "ForbiddenAccessDenied"

\* A request to a route: the global JwtAuthGuard, then the route's RolesGuard;
\* a request they let through waits for its handler with request.user set.
\* carried is what the request held as its token, kept for the record.
AccessRequest(req, route, target, role) ==
    LET g == JwtAuthGuard(route, req, users, now)
        res == IF g.decision = "allow" THEN RolesGuard(route, g.user) ELSE g.decision
        slot == [IdleAccess EXCEPT !.route = route.name, !.token = AuthHeaderAsBearerToken(req)]
    IN
    /\ ar.pc \in {"idle", "done"}
    /\ ar' = IF res = "allow"
             THEN [slot EXCEPT !.pc = "handler", !.user = g.user, !.target = target, !.role = role]
             ELSE [slot EXCEPT !.pc = "done", !.result = res]
    /\ last' = NoOp
    /\ UNCHANGED <<users, nextUserId, tokens, nextTokenId, now, rf, rg, lg, issued, lineage, revoked, boot, db, ce, cu>>

\* the catch blocks of UsersService.update and UsersService.remove: a store
\* error P2025 becomes NotFound (update: P2002 becomes Conflict), every other
\* error, the exceptions thrown inside the try included, becomes
\* InternalServerErrorException
usersCatch(error) ==
    IF error = "P2025" THEN "NotFound"
    ELSE IF error = "P2002" THEN "Conflict"
    ELSE "InternalServerError"

\* the properties ValidationPipe finds decorated in UpdateUserDto (its own
\* and those PartialType takes from CreateUserDto)
UpdateUserDtoProperties == {"email", "name", "password", "bio"}

\* variant: UpdateUserDto declares role as well
UpdateUserDtoPropertiesWithRole == {"email", "name", "password", "bio", "role"}

\* the global ValidationPipe (whitelist, forbidNonWhitelisted) on the body of
\* PATCH /users/:id; role is "" for a body without the property, which then
\* holds a new bio
ValidationPipe(role) ==
    LET keys == IF role = "" THEN {"bio"} ELSE {"role"} IN
    IF keys \subseteq UpdateUserDtoProperties THEN "pass" ELSE "BadRequest"

\* UsersController.update and UsersService.update called with a dto that
\* holds the role (or, when role is "", a bio that differs from the stored one)
usersUpdate(us, principal, id, role) ==
    LET existing == UserById(us, id) IN
    IF principal.role # "ADMIN" /\ role # "" THEN [result |-> "Forbidden", users |-> us]
    ELSE IF principal.role # "ADMIN" /\ principal.id # id
         THEN [result |-> usersCatch("ForbiddenException"), users |-> us]
    ELSE IF existing = {} THEN [result |-> usersCatch("NotFoundException"), users |-> us]
    ELSE IF role # "" /\ \A u \in existing : u.role = role
         THEN [result |-> usersCatch("ConflictException"), users |-> us]
    ELSE [result |-> "ok",
          users |-> {IF u.id = id /\ role # "" THEN [u EXCEPT !.role = role] ELSE u : u \in us}]

\* variant: the caller's own id is not looked at
usersRemoveAnyone(us, rows, principal, id, restricted) ==
    IF UserById(us, id) = {} THEN [result |-> usersCatch("P2025"), users |-> us, rows |-> rows]
    ELSE IF restricted /\ RowsByUser(rows, id) # {}
         THEN [result |-> usersCatch("P2003"), users |-> us, rows |-> rows]
    ELSE [result |-> "ok", users |-> {u \in us : u.id # id},
          rows |-> {r \in rows : r.userId # id}]

\* UsersService.remove: user.delete({ where: { id } }); restricted tells
\* whether the store refuses to delete a user who still owns rows
usersRemove(us, rows, principal, id, restricted) ==
    IF id = principal.id THEN [result |-> usersCatch("ConflictException"), users |-> us, rows |-> rows]
    ELSE IF UserById(us, id) = {} THEN [result |-> usersCatch("P2025"), users |-> us, rows |-> rows]
    ELSE IF restricted /\ RowsByUser(rows, id) # {}
         THEN [result |-> usersCatch("P2003"), users |-> us, rows |-> rows]
    ELSE [result |-> "ok", users |-> {u \in us : u.id # id},
          rows |-> {r \in rows : r.userId # id}]

\* POST /auth/logout up to its handler: the access gate on the access_token
\* cookie and the Authorization header; the request it lets through keeps
\* its header and its refresh_token cookie for the handler
LogoutRequest(access, refresh, scheme, bearer) ==
    LET g == JwtAuthGuard(LogoutRoute, Request(access, scheme, bearer), users, now)
        slot == [IdleAccess EXCEPT !.route = LogoutRoute.name, !.token = bearer]
    IN
    /\ ar.pc \in {"idle", "done"}
    /\ ar' = IF g.decision = "allow"
             THEN [slot EXCEPT !.pc = "handler", !.user = g.user,
                               !.scheme = scheme, !.refresh = refresh]
             ELSE [slot EXCEPT !.pc = "done", !.result = g.decision]
    /\ last' = NoOp
    /\ UNCHANGED <<users, nextUserId, tokens, nextTokenId, now, rf, rg, lg, issued, lineage, revoked, boot, db, ce, cu>>

\* variant: the handler reads the refresh token from the cookie it was set in
\* and from nowhere else
logoutTokenFromCookie(refresh, scheme, bearer) == refresh

\* AuthController.logout, its own read of the refresh token:
\* req.cookies?.['refresh_token'] || req.get('authorization')?.replace('Bearer', '').trim()
logoutToken(refresh, scheme, bearer) == RefreshTokenOfRequest(Request(refresh, scheme, bearer))

\* AuthController.logout, the handler: without a token string it answers at
\* once, with one it calls AuthService.logout(user.id, refreshToken)
logoutHandler(rows, principal, refresh, scheme, bearer) ==
    LET refreshToken == logoutToken(refresh, scheme, bearer) IN
    IF refreshToken = NoToken THEN [result |-> "okNoTokenFound", rows |-> rows]
    ELSE [result |-> "ok",
          rows |-> {r \in rows : ~logoutWhere(r, principal.id, refreshToken)}]

\* the pipe and the handler of the route the request was let through to
AccessHandler(restricted) ==
    LET route == CHOOSE r \in Routes \cup OtherRoutes \cup {LogoutRoute} : r.name = ar.route
        lo == logoutHandler(tokens, ar.user, ar.refresh, ar.scheme, ar.token)
        up == IF ValidationPipe(ar.role) = "pass"
              THEN usersUpdate(users, ar.user, ar.target, ar.role)
              ELSE [result |-> ValidationPipe(ar.role), users |-> users]
        rm == usersRemove(users, tokens, ar.user, ar.target, restricted)
    IN
    /\ ar.pc = "handler"
    /\ users' = IF route.op = "update" THEN up.users
                ELSE IF route.op = "remove" THEN rm.users ELSE users
    /\ tokens' = IF route.op = "remove" THEN rm.rows
                 ELSE IF route.op = "logout" THEN lo.rows ELSE tokens
    /\ revoked' = revoked \cup {lineage[r.id] : r \in tokens \ tokens'}
    /\ ar' = [ar EXCEPT !.pc = "done", !.user = NoUser, !.target = 0, !.role = "",
                        !.scheme = "", !.refresh = NoToken,
                        !.result = IF route.op = "update" THEN up.result
                                   ELSE IF route.op = "remove" THEN rm.result
                                   ELSE IF route.op = "logout" THEN lo.result ELSE "ok"]
    /\ last' = NoOp
    /\ UNCHANGED <<nextUserId, nextTokenId, now, rf, rg, lg, issued, lineage, boot, db, ce, cu>>

\* ---------------------------------------------------------------- specifications
\* Spec: every session operation, one refresh request in flight at a time
RefreshBegin == \E t \in Presentable, g \in BOOLEAN : RefreshStart(1, t, g)
RefreshGuarded == RefreshGate(1)
RefreshFind == RefreshLookup(1)
RefreshExpire == RefreshDeleteExpired(1)
RefreshCommit == \E fault \in 0..2 : RefreshRotate(1, fault)
RefreshStop == RefreshCrash(1)

Next ==
    \/ Tick
    \/ Login
    \/ RefreshBegin
    \/ RefreshGuarded
    \/ RefreshFind
    \/ RefreshExpire
    \/ RefreshCommit
    \/ RefreshStop
    \/ Logout
    \/ LogoutAll

Spec == Init /\ [][Next]_vars

\* SpecRace: refreshTokens calls that overlap, the store never failing
RaceBegin == \E p \in RefreshCalls, t \in issued : RefreshStart(p, t, FALSE)
RaceFind == \E p \in RefreshCalls : RefreshLookup(p)
RaceExpire == \E p \in RefreshCalls : RefreshDeleteExpired(p)
RaceCommit == \E p \in RefreshCalls : RefreshRotate(p, 0)

NextRace == Tick \/ Login \/ RaceBegin \/ RaceFind \/ RaceExpire \/ RaceCommit

SpecRace == Init /\ [][NextRace]_vars

\* SpecRegister: register calls that overlap
RegisterBegin == \E q \in RegisterCalls, raw \in RawEmails, role \in RoleInputs : RegisterStart(q, raw, role)
RegisterExists == \E q \in RegisterCalls : RegisterCheck(q)
RegisterInsert == \E q \in RegisterCalls : RegisterCreate(q)

NextRegister == RegisterBegin \/ RegisterExists \/ RegisterInsert

SpecRegister == Init /\ [][NextRegister]_vars

\* SpecLogin: requests to the login endpoint
LoginRequest ==
    \E email \in LoginEmails, password \in LoginPasswords, d \in Devices, bodyOk \in BOOLEAN :
        LoginAttempt(email, password, d, bodyOk)

NextLogin == Tick \/ LoginRequest \/ LoginHandler

SpecLogin == Init /\ [][NextLogin]_vars

\* SpecAccess: requests through the access gate, between logins,
\* registrations and the changes of the user table the handlers make
AccessLogins == 2          \* logins of this specification
AccessTargets == {1, 3}    \* the :id of the requests that change users
AccessTokens == AccessIssued \cup {NoToken, Forged}
AccessRequests ==
    {Request(c, sch, b) : c \in AccessTokens, sch \in Schemes, b \in AccessTokens}
AccessLogin ==
    \E user \in users :
        /\ user.id \in AccessTargets
        /\ nextTokenId <= AccessLogins
        /\ login(user, "")
        /\ UNCHANGED <<lg, ar>>
AccessBegin ==
    \E route \in Routes, bearer \in AccessTokens :
        \E target \in (IF route.op = "read" THEN {0} ELSE AccessTargets),
           role \in (IF route.op = "update" THEN UserRoles \cup {""} ELSE {""}) :
            AccessRequest(Request(NoToken, "Bearer", bearer), route, target, role)
AccessHandle == \E restricted \in BOOLEAN : AccessHandler(restricted)
RegisterAdmin == RegisterStart(1, "c@x.io", "ADMIN")

\* an ADMIN is demoted: the role column of the row is changed in the store by
\* whoever administers it; no handler of the application writes the column
StoreRoleChange ==
    \E u \in users :
        /\ u.id \in AccessTargets /\ u.role = "ADMIN"
        /\ users' = (users \ {u}) \cup {[u EXCEPT !.role = "USER"]}
        /\ last' = NoOp
        /\ UNCHANGED <<nextUserId, tokens, nextTokenId, now, rf, rg, lg, ar, issued, lineage, revoked, boot, db, ce, cu>>

NextAccess ==
    \/ Tick
    \/ StoreRoleChange
    \/ AccessLogin
    \/ RegisterAdmin
    \/ RegisterExists
    \/ RegisterInsert
    \/ AccessBegin
    \/ AccessHandle

SpecAccess == Init /\ [][NextAccess]_vars

\* a refreshTokens call on a token that was handed out
RefreshDirect == \E t \in issued : RefreshStart(1, t, FALSE)

\* SpecCleanup: the cleanup between the session operations
CleanupRun == \E caller \in CleanupCallers, failed \in BOOLEAN : Cleanup(caller, failed)

NextCleanup ==
    \/ Tick
    \/ Login
    \/ RefreshDirect
    \/ RefreshFind
    \/ RefreshExpire
    \/ RefreshCommit
    \/ Logout
    \/ CleanupRun

SpecCleanup == Init /\ [][NextCleanup]_vars

\* SpecRotate: refreshTokens on the sessions of logins with and without a label
LoginLabelled == \E user \in users, d \in Devices : login(user, d) /\ UNCHANGED <<lg, ar>>

NextRotate ==
    \/ Tick
    \/ LoginLabelled
    \/ RefreshDirect
    \/ RefreshFind
    \/ RefreshExpire
    \/ RefreshCommit

SpecRotate == Init /\ [][NextRotate]_vars

\* SpecTransport: requests that carry a cookie, a header or both, at the
\* two gates
RefreshTokens == issued \cup {NoToken, Forged}
RefreshRequests ==
    {Request(c, sch, b) : c \in RefreshTokens, sch \in Schemes, b \in RefreshTokens}
TransportRefresh == \E req \in RefreshRequests : RefreshRequest(1, req)
TransportAccess ==
    \E req \in AccessRequests, route \in {r \in Routes : r.op = "read"} :
        AccessRequest(req, route, 0, "")

NextTransport ==
    \/ Tick
    \/ AccessLogin
    \/ TransportRefresh
    \/ RefreshFind
    \/ RefreshExpire
    \/ RefreshCommit
    \/ TransportAccess
    \/ AccessHandle

SpecTransport == Init /\ [][NextTransport]_vars

\* ---------------------------------------------------------------- properties
UserIds == {u.id : u \in users}
Sessions == {lineage[i] : i \in DOMAIN lineage}
RowsOfSession(rows, sid) == {r \in rows : lineage[r.id] = sid}

\* p's rotation transaction committed in this step
Rotated(p) == rf[p].pc = "rotate" /\ rf'[p].pc = "done" /\ rf'[p].result = "ok"
\* p's rotation transaction failed at one of its statements in this step
RotationFailed(p) ==
    rf[p].pc = "rotate" /\ rf'[p].pc = "done" /\ rf'[p].result \in {"StoreFailure", "RecordNotFound"}

\* C1: a refresh that succeeds on the token t of a login returns a token
\* other than t, t is rejected from then on, and exactly one row holds the
\* returned token (so it is accepted once).
C1_RefreshReturnsFreshToken ==
    [][\A p \in RefreshCalls :
          Rotated(p) =>
            /\ rf[p].newToken # rf[p].presented
            /\ rf[p].newToken \in issued'
            /\ ~Accepted(tokens', rf[p].presented, now')
            /\ Cardinality(RowsByToken(tokens', rf[p].newToken)) = 1]_vars

\* C2: of two refreshTokens calls that both read the same row unexpired (and
\* so both went on to the rotation), exactly one returns new tokens, the
\* other fails with InvalidRefreshToken, and one row descends from the row
\* they read.
C2_ConcurrentRefreshOneWinner ==
    \A p, q \in RefreshCalls :
        (/\ p # q
         /\ rf[p].pc = "done" /\ rf[q].pc = "done"
         /\ rf[p].rec # NoRow /\ rf[p].rec = rf[q].rec
         /\ rf[p].newToken # NoToken /\ rf[q].newToken # NoToken)
        => /\ {rf[p].result, rf[q].result} = {"ok", "InvalidRefreshToken"}
           /\ Cardinality(RowsOfSession(tokens, lineage[rf[p].rec.id])) = 1

\* C3: in every state, a session that no logout, logout-all or expiry delete
\* has ended holds exactly one row, and an ended one holds none: no state has
\* the old row gone without its successor, and none has both.
C3_RotationIsAtomic ==
    \A sid \in Sessions :
        IF sid \in revoked
        THEN RowsOfSession(tokens, sid) = {}
        ELSE Cardinality(RowsOfSession(tokens, sid)) = 1

\* a rotated session on which a later rotation failed or was cut off by a
\* crash, its row still in place
C3_Witness ==
    \E p \in RefreshCalls :
        /\ rf[p].pc = "done"
        /\ rf[p].result \in {"StoreFailure", "Crashed"}
        /\ rf[p].rec \in tokens
        /\ lineage[rf[p].rec.id] # rf[p].rec.id

InvalidRefreshTokenErrors ==
    {"InvalidRefreshToken", "InvalidRefreshTokenOrUserNotFound", "InvalidOrExpiredRefreshToken"}

\* those that tell the caller the token has expired: 'Refresh token expired'
\* (refreshTokens), 'Refresh token has expired' (validate), and the guard's
\* 'Invalid or expired refresh token'
RefreshTokenExpiredErrors ==
    {"RefreshTokenExpired", "RefreshTokenHasExpired", "InvalidOrExpiredRefreshToken"}

\* p's request was decided at the gate, or by refreshTokens' findFirst, in this step
GateStep(p) == rf[p].pc = "gate" /\ rf'[p].pc # "gate"
LookupStep(p) == rf[p].pc = "lookup" /\ rf'[p].pc # "lookup"

\* C5: a refresh request whose token string is in no row ends, at the gate
\* and in refreshTokens alike, with an invalid-refresh-token error and
\* changes nothing in the store, whatever the token's signature and exp say.
C5_UnknownTokenRejected ==
    [][\A p \in RefreshCalls :
          ((GateStep(p) \/ LookupStep(p)) /\ RowsByToken(tokens, rf[p].presented) = {}) =>
            /\ rf'[p].pc = "done"
            /\ rf'[p].result \in InvalidRefreshTokenErrors
            /\ LookupStep(p) => rf'[p].result = "InvalidRefreshToken"
            /\ (GateStep(p) /\ ~JwtExpired(rf[p].presented, now))
                 => rf'[p].result = "InvalidRefreshTokenOrUserNotFound"
            /\ UNCHANGED <<users, tokens, nextTokenId, issued>>]_vars

\* a token that was handed out, whose signature and exp still verify, and
\* whose row is gone, was turned away at the gate
C5_Witness ==
    \E p \in RefreshCalls :
        /\ rf[p].pc = "done"
        /\ rf[p].result = "InvalidRefreshTokenOrUserNotFound"
        /\ rf[p].presented \in issued
        /\ ~JwtExpired(rf[p].presented, now)
        /\ RowsByToken(tokens, rf[p].presented) = {}

\* C6: when logoutAllDevices(u) returns, no token handed out to u before is
\* accepted by refreshTokens, the rows of the other users are as they were,
\* and with no row of u the call changes nothing; a refresh that had read a
\* row before the call cannot bring the session back, because a rotation
\* commits only on a row that is still stored.
C6_LogoutAllRevokesEveryToken ==
    /\ [][\A uid \in UserIds :
          logoutAllDevices(uid) =>
            /\ \A t \in issued : t.sub = uid => ~Accepted(tokens', t, now')
            /\ RowsByUser(tokens', uid) = {}
            /\ {r \in tokens' : r.userId # uid} = {r \in tokens : r.userId # uid}
            /\ (RowsByUser(tokens, uid) = {} => tokens' = tokens)]_vars
    /\ [][\A p \in RefreshCalls : Rotated(p) => rf[p].rec \in tokens]_vars

\* logout-all has just removed two rows of a user who had been handed a login
\* token and a rotated one, and another user's row is in place
C6_Witness ==
    /\ last.op = "logoutAll"
    /\ last.count = 2
    /\ \E r \in tokens : r.userId # last.user
    /\ \E t1, t2 \in issued : t1 # t2 /\ t1.sub = last.user /\ t2.sub = last.user

\* C7 as stated: logout(u, t) removes the rows of u holding t and no other,
\* succeeds when there is none, and refreshTokens(t) fails afterwards.
C7_LogoutRevokesToken ==
    [][\A uid \in UserIds, t \in Presentable :
          logout(uid, t) =>
            /\ tokens' = {r \in tokens : ~(r.userId = uid /\ r.token = t)}
            /\ ~Accepted(tokens', t, now')]_vars

\* C7 amended: logout(u, t) removes the rows of u holding t and no other,
\* succeeds when there is none, and afterwards refreshTokens(t) is accepted
\* exactly when a row of another user holds t unexpired.
C7_LogoutRemovesOwnRowsOnly ==
    [][\A uid \in UserIds, t \in Presentable :
          logout(uid, t) =>
            /\ tokens' = {r \in tokens : ~(r.userId = uid /\ r.token = t)}
            /\ Accepted(tokens', t, now')
                 = (\E r \in tokens : r.token = t /\ r.userId # uid /\ ~RowExpired(r, now))]_vars

\* logout has just removed one row of a user who keeps another row, and a
\* row of another user is in place
C7_Witness ==
    /\ last.op = "logout"
    /\ last.count = 1
    /\ RowsByUser(tokens, last.user) # {}
    /\ \E r \in tokens : r.userId # last.user

\* C8: a refresh request whose token has a row with a stored expiry in the
\* past ends with a refresh-token-expired error and the row is gone, at the
\* gate as well as in refreshTokens.
C8_ExpiredRowRemovedOnTouch ==
    [][\A p \in RefreshCalls :
          /\ (GateStep(p) /\ \E r \in RowsByToken(tokens, rf[p].presented) : RowExpired(r, now))
               => /\ rf'[p].result \in RefreshTokenExpiredErrors
                  /\ RowsByToken(tokens', rf[p].presented) = {}
          /\ (rf[p].pc = "expired" /\ rf'[p].pc = "done")
               => /\ rf'[p].result \in RefreshTokenExpiredErrors
                  /\ rf[p].rec \notin tokens']_vars

\* no two user rows with one email
UniqueEmails == \A u, v \in users : u.email = v.email => u = v

\* C9: a register call whose email is stored when its existence check runs
\* fails with Conflict and inserts nothing, and no two user rows ever hold
\* the same email.
C9_DuplicateEmailConflicts ==
    /\ []UniqueEmails
    /\ [][\A q \in RegisterCalls :
            (rg[q].pc = "check" /\ rg'[q].pc # "check" /\ UserByEmail(users, rg[q].email) # {}) =>
              /\ rg'[q].pc = "done"
              /\ rg'[q].result = "Conflict"
              /\ users' = users
              /\ nextUserId' = nextUserId]_vars

\* one call registered an email and another call with the same email was
\* refused with Conflict
C9_Witness ==
    \E q, k \in RegisterCalls :
        /\ rg[q].pc = "done" /\ rg[q].result = "ok"
        /\ rg[k].pc = "done" /\ rg[k].result = "Conflict"
        /\ rg[q].email = rg[k].email
        /\ Cardinality(UserByEmail(users, rg[q].email)) = 1

\* C10: every finished register call either registered its email or failed
\* with Conflict, and one user row holds that email.
C10_RegisterRaceLoserGetsConflict ==
    \A q \in RegisterCalls :
        rg[q].pc = "done" =>
          /\ rg[q].result \in {"ok", "Conflict"}
          /\ Cardinality(UserByEmail(users, rg[q].email)) = 1

\* the store, as a login attempt may change it
store == <<users, nextUserId, tokens, nextTokenId>>

\* C11: at the login endpoint an email that no user has and a wrong password
\* for an email that a user has end alike, with the one error 'Invalid email
\* or password', and neither changes the store: no row is inserted and no
\* lastLogin is written.
C11_LoginFailuresIndistinguishable ==
    /\ [](\A e1, e2 \in LoginEmails, p1, p2 \in LoginPasswords :
            (/\ UserByEmail(users, e1) = {}
             /\ \E u \in UserByEmail(users, e2) : ~Verify(u.password, p2))
            => /\ LocalAuthGuard(users, e1, p1) = "InvalidEmailOrPassword"
               /\ LocalAuthGuard(users, e2, p2) = LocalAuthGuard(users, e1, p1))
    /\ [][\A e \in LoginEmails, p \in LoginPasswords, d \in Devices, b \in BOOLEAN :
            (/\ LoginAttempt(e, p, d, b)
             /\ \/ UserByEmail(users, e) = {}
                \/ \E u \in UserByEmail(users, e) : ~Verify(u.password, p))
            => /\ lg'.pc = "done"
               /\ lg'.result = "InvalidEmailOrPassword"
               /\ lg'.refreshToken = NoToken /\ lg'.view = NoUser
               /\ UNCHANGED store]_vars

\* a wrong password for a user who has logged in before was turned away, the
\* user's row and session as they were
C11_Witness ==
    /\ lg.pc = "done"
    /\ lg.result = "InvalidEmailOrPassword"
    /\ \E u \in UserByEmail(users, lg.email) : u.lastLogin >= 0 /\ RowsByUser(tokens, u.id) # {}

\* the handler of the login endpoint returned in this step
LoggedIn == lg.pc = "store" /\ lg'.pc = "done" /\ lg'.result = "ok"

\* C12: a login that succeeds inserts one row: its token the returned refresh
\* token, its owner the authenticated user, its label the deviceInfo of the
\* body, or "Unknown Device" when that is absent or empty, its expiry
\* calculateExpirationDate; it writes that user's lastLogin, leaves every
\* other row of both tables alone, and the returned user has no password.
C12_LoginStoresOneRow ==
    [][LoggedIn =>
         /\ \E r \in tokens' :
              /\ r \notin tokens
              /\ tokens' = tokens \cup {r}
              /\ r.token = lg'.refreshToken
              /\ r.userId = lg.user.id
              /\ r.deviceInfo = (IF lg.deviceInfo = "" THEN "Unknown Device" ELSE lg.deviceInfo)
              /\ r.expiresAt = calculateExpirationDate(now)
         /\ lg'.refreshToken \in issued'
         /\ \A u \in users :
              IF u.id = lg.user.id THEN [u EXCEPT !.lastLogin = now] \in users'
              ELSE u \in users'
         /\ Cardinality(users') = Cardinality(users)
         /\ lg'.view.id = lg.user.id
         /\ "password" \notin DOMAIN lg'.view]_vars

\* a login with a label of its own has returned while a row with the default
\* label, of another user, is stored
C12_Witness ==
    /\ lg.pc = "done" /\ lg.result = "ok"
    /\ \E r \in tokens : r.token = lg.refreshToken /\ r.deviceInfo = "Phone" /\ r.userId = lg.user.id
    /\ \E r \in tokens : r.userId # lg.user.id /\ r.deviceInfo = "Unknown Device"

\* the route of a name
RouteOf(name) == CHOOSE r \in Routes \cup OtherRoutes \cup {LogoutRoute} : r.name = name

\* a request was decided by the guards in this step; ar' holds its route
\* and the token of its Authorization header
Gated ==
    /\ ar.pc \in {"idle", "done"} /\ ar'.pc \in {"handler", "done"} /\ ar'.route # ""
    /\ UNCHANGED <<users, nextUserId, tokens, nextTokenId, now, rf, rg, lg, boot, db, ce, cu>>

\* the 401s of the access gate
UnauthenticatedErrors == {"InvalidOrExpiredAccessToken", "UserNoLongerExists"}

\* C13: on a route that is not public a request with no access token, with
\* one not signed with the access secret, or with one whose TTL has elapsed
\* (now >= iat + AccessTtl) ends with a 401 of the gate before any handler
\* runs, and nothing is written.
C13_BadAccessTokenRejected ==
    [][(/\ Gated
        /\ ~RouteOf(ar'.route).public
        /\ \/ ar'.token = NoToken
           \/ ~VerifiedAccess(ar'.token)
           \/ now >= ar'.token.iat + AccessTtl)
       => /\ ar'.pc = "done"
          /\ ar'.result \in UnauthenticatedErrors
          /\ ar'.user = NoUser
          /\ UNCHANGED store]_vars

\* an access token that was handed out, whose user is still stored, was
\* turned away after its TTL
C13_Witness ==
    /\ ar.pc = "done"
    /\ ar.result = "InvalidOrExpiredAccessToken"
    /\ ar.token \in AccessIssued
    /\ now >= ar.token.iat + AccessTtl
    /\ UserById(users, ar.token.sub) # {}

\* C14: for a verified, unexpired access token on a route that is not
\* public, a subject that is not stored ends the request with the 401 'User no
\* longer exists'; otherwise request.user is the stored row's view and the
\* required-role check is decided by the stored role, not by the token's.
C14_GateUsesStoredUser ==
    [][(/\ Gated
        /\ ~RouteOf(ar'.route).public
        /\ ar'.token # NoToken /\ VerifiedAccess(ar'.token)
        /\ now < ar'.token.iat + AccessTtl)
       => LET route == RouteOf(ar'.route)
              found == UserById(users, ar'.token.sub)
          IN  IF found = {}
              THEN ar'.pc = "done" /\ ar'.result = "UserNoLongerExists"
              ELSE \A u \in found :
                     IF ~route.declared \/ u.role \in route.roles
                     THEN ar'.pc = "handler" /\ ar'.user = UserView(u)
                     ELSE ar'.pc = "done" /\ ar'.result = "ForbiddenAccessDenied"]_vars

\* a token minted while its user was ADMIN was refused on the ADMIN-only
\* route after the user had been made USER, within the token's TTL
C14_Witness ==
    /\ ar.pc = "done"
    /\ ar.route = "DELETE /users/:id"
    /\ ar.result = "ForbiddenAccessDenied"
    /\ ar.token \in AccessIssued
    /\ ar.token.role = "ADMIN"
    /\ now < ar.token.iat + AccessTtl
    /\ \E u \in UserById(users, ar.token.sub) : u.role = "USER"

\* the 403s of RolesGuard
ForbiddenErrors == {"ForbiddenUserNotAuthenticated", "ForbiddenAccessDenied"}

\* C15: RolesGuard allows exactly when the route has no roles metadata or
\* request.user is set and its role is among the declared ones; with roles
\* declared and the role not among them, or no user set, it throws a 403;
\* and no handler of a route with roles runs for a user outside them.
C15_RolesGuardMembership ==
    /\ [](\A route \in Routes \cup OtherRoutes, user \in {NoUser} \cup {UserView(u) : u \in users} :
            LET member == user # NoUser /\ user.role \in route.roles IN
            /\ (RolesGuard(route, user) = "allow") = (~route.declared \/ member)
            /\ (route.declared /\ ~member) => RolesGuard(route, user) \in ForbiddenErrors
            /\ (route.declared /\ user = NoUser)
                 => RolesGuard(route, user) = "ForbiddenUserNotAuthenticated")
    /\ [][(Gated /\ RouteOf(ar'.route).declared)
            => IF ar'.pc = "handler"
               THEN ar'.user # NoUser /\ ar'.user.role \in RouteOf(ar'.route).roles
               ELSE ar'.result \in ForbiddenErrors \cup UnauthenticatedErrors]_vars

\* a stored USER with a valid token of its own was refused on the
\* ADMIN-only route
C15_Witness ==
    /\ ar.pc = "done"
    /\ ar.route = "DELETE /users/:id"
    /\ ar.result = "ForbiddenAccessDenied"
    /\ ar.token.role = "USER"
    /\ \E u \in UserById(users, ar.token.sub) : u.role = "USER"

\* C16: on a public route JwtAuthGuard.canActivate allows every request,
\* whatever it carries, verifies no token and reads no user; the handler
\* of a public route without roles is reached by every request.
C16_PublicRouteSkipsGate ==
    /\ [](\A route \in Routes \cup OtherRoutes, req \in AccessRequests :
            route.public => JwtAuthGuard(route, req, users, now) = Decision("allow", NoUser, FALSE, FALSE))
    /\ [][(Gated /\ RouteOf(ar'.route).public /\ ~RouteOf(ar'.route).declared)
            => ar'.pc = "handler" /\ ar'.user = NoUser]_vars

\* the handler of a public route ran for a request that carried the expired
\* token of a user who had been deleted
C16_Witness ==
    /\ ar.pc = "done"
    /\ ar.route = "GET /posts"
    /\ ar.result = "ok"
    /\ ar.token \in AccessIssued
    /\ now >= ar.token.iat + AccessTtl
    /\ UserById(users, ar.token.sub) = {}

\* a cleanup returned its count in this step
CleanedUp == last'.op \in CleanupCallers /\ last'.error = "none" /\ last' # last

\* C17: a cleanup that returns removes the rows whose expiresAt is before
\* now and no other, in whatever state login, refresh and logout have left
\* the table; the count it returns is the number of rows it removed; a
\* second run in the same second would remove nothing and return 0.
C17_CleanupRemovesExpiredOnly ==
    [][CleanedUp =>
         /\ tokens' = {r \in tokens : r.expiresAt >= now}
         /\ last'.count = Cardinality(tokens) - Cardinality(tokens')
         /\ cleanupExpiredTokens(tokens', now', FALSE).count = 0
         /\ cleanupExpiredTokens(tokens', now', FALSE).rows = tokens'
         /\ UNCHANGED <<users, nextTokenId, issued>>]_vars

\* of three rows the cleanup has removed the two that were expired and left
\* the one that is not
C17_Witness ==
    /\ last.op \in CleanupCallers
    /\ last.count = 2
    /\ Cardinality(tokens) = 1
    /\ nextTokenId = 4
    /\ \A r \in tokens : r.expiresAt > now

\* C18: no caller of the cleanup, the schedule or the administrator's
\* request, gets an error out of it.
C18_CleanupFailureNotPropagated ==
    last.op \in CleanupCallers => last.error = "none"

\* C19: a rotation that commits replaces the row it read by one row with
\* the same owner and the same deviceInfo (the refresh request supplies
\* none), and every user owns as many rows after it as before.
C19_RotationKeepsOwnerAndLabel ==
    [][\A p \in RefreshCalls :
          Rotated(p) =>
            /\ \E r \in tokens' :
                 /\ r \notin tokens
                 /\ tokens' = (tokens \ {rf[p].rec}) \cup {r}
                 /\ r.token = rf[p].newToken
                 /\ r.userId = rf[p].rec.userId
                 /\ r.deviceInfo = rf[p].rec.deviceInfo
            /\ \A uid \in UserIds :
                 Cardinality(RowsByUser(tokens', uid)) = Cardinality(RowsByUser(tokens, uid))]_vars

\* the session of a login labelled "Phone" was rotated and still carries the
\* label, next to a session with the default label
C19_Witness ==
    \E p \in RefreshCalls :
        /\ rf[p].pc = "done" /\ rf[p].result = "ok"
        /\ rf[p].rec.deviceInfo = "Phone"
        /\ \E r \in tokens :
             /\ r.token = rf[p].newToken /\ r.id # rf[p].rec.id
             /\ r.deviceInfo = "Phone" /\ r.userId = rf[p].rec.userId
        /\ \E r \in tokens : r.deviceInfo = "Unknown Device"

\* the token a cookie-first extraction picks from a request
CookieFirst(req) == IF req.cookie # NoToken THEN req.cookie ELSE AuthHeaderAsBearerToken(req)

\* what the refresh gate decides when t is the token it verifies and looks up
RefreshDecision(t) ==
    IF t = NoToken \/ ~VerifiedRefresh(t) THEN "InvalidOrExpiredRefreshToken"
    ELSE JwtRefreshGuard(users, tokens, t, now)

\* C20: at both gates the decision on a request is the decision on its
\* cookie's token when it has a cookie, and on its Bearer token otherwise;
\* and the string the refresh gate looks up is the token it verified.
C20_CookieTakesPrecedence ==
    /\ \A req \in AccessRequests, route \in Routes :
          ~route.public =>
            JwtAuthGuard(route, req, users, now).decision
              = JwtAuthGuard(route, Request(NoToken, "Bearer", CookieFirst(req)), users, now).decision
    /\ \A req \in RefreshRequests :
          /\ JwtRefreshGuardRequest(users, tokens, req, now) = RefreshDecision(CookieFirst(req))
          /\ (VerifiedRefresh(fromExtractors(req)) /\ ~JwtExpired(fromExtractors(req), now))
               => RefreshTokenOfRequest(req) = fromExtractors(req)

\* ---------------------------------------------------------------- startup: main.ts, PrismaService
maxReconnectAttempts == 10    \* PrismaService.maxReconnectAttempts
reconnectInterval == 5000     \* PrismaService.reconnectInterval, ms
MAX_RETRY_ATTEMPTS == 5       \* main.ts
RETRY_INTERVAL == 5000        \* main.ts, ms

\* bootstrap() as the last line of main.ts calls it: retryCount = 0, no
\* PrismaService built yet
Bootstrap ==
    [pc |-> "create", retryCount |-> 0, reconnectAttempts |-> 0, exitCode |-> -1,
     attempts |-> 0, delays |-> 0, elapsed |-> 0]

\* variant: the comparison of connectWithRetry admits one attempt more
mayReconnectOneMore(reconnectAttempts) == reconnectAttempts <= maxReconnectAttempts

\* connectWithRetry, catch: this.reconnectAttempts < this.maxReconnectAttempts
mayReconnect(reconnectAttempts) == reconnectAttempts < maxReconnectAttempts

\* bootstrap, catch: retryCount < MAX_RETRY_ATTEMPTS
mayRetry(retryCount) == retryCount < MAX_RETRY_ATTEMPTS

\* try block of bootstrap up to the first $connect: NestFactory.create builds
\* the providers, and the constructor of PrismaService returns
\* PrismaService._instance, the object of the first run with its
\* reconnectAttempts; app.listen runs onModuleInit, which calls
\* connectWithRetry
BootCreate ==
    /\ boot.pc = "create"
    /\ boot' = [boot EXCEPT !.pc = "connect", !.attempts = 0, !.delays = 0]
    /\ UNCHANGED <<users, nextUserId, tokens, nextTokenId, now, rf, rg, lg, ar, issued, lineage, revoked, last, db, ce, cu>>

\* connectWithRetry up to its next await: $connect, then either the reset of
\* the counter, or the catch block: count, compare, and wait or rethrow into
\* the catch block of bootstrap
connectWithRetry ==
    /\ boot.pc = "connect"
    /\ boot' =
         IF db = "up"
         THEN [boot EXCEPT !.pc = "connected", !.reconnectAttempts = 0,
                           !.attempts = boot.attempts + 1]
         ELSE [boot EXCEPT !.pc = IF mayReconnect(boot.reconnectAttempts + 1)
                                  THEN "delay" ELSE "caught",
                           !.reconnectAttempts = boot.reconnectAttempts + 1,
                           !.attempts = boot.attempts + 1]
    /\ UNCHANGED <<users, nextUserId, tokens, nextTokenId, now, rf, rg, lg, ar, issued, lineage, revoked, last, db, ce, cu>>

\* await this.delay(this.reconnectInterval); return this.connectWithRetry()
ReconnectDelay ==
    /\ boot.pc = "delay"
    /\ boot' = [boot EXCEPT !.pc = "connect", !.delays = boot.delays + 1,
                            !.elapsed = boot.elapsed + reconnectInterval]
    /\ UNCHANGED <<users, nextUserId, tokens, nextTokenId, now, rf, rg, lg, ar, issued, lineage, revoked, last, db, ce, cu>>

\* onModuleInit has returned: the rest of app.listen(PORT), the try block ends
BootListen ==
    /\ boot.pc = "connected"
    /\ boot' = [boot EXCEPT !.pc = "listening"]
    /\ UNCHANGED <<users, nextUserId, tokens, nextTokenId, now, rf, rg, lg, ar, issued, lineage, revoked, last, db, ce, cu>>

\* catch block of bootstrap: the comparison, then the wait or process.exit(1)
BootstrapCatch ==
    /\ boot.pc = "caught"
    /\ boot' =
         IF mayRetry(boot.retryCount)
         THEN [boot EXCEPT !.pc = "wait"]
         ELSE [boot EXCEPT !.pc = "exited", !.exitCode = 1]
    /\ UNCHANGED <<users, nextUserId, tokens, nextTokenId, now, rf, rg, lg, ar, issued, lineage, revoked, last, db, ce, cu>>

\* await delay(RETRY_INTERVAL); return bootstrap(retryCount + 1)
BootstrapRetry ==
    /\ boot.pc = "wait"
    /\ boot' = [boot EXCEPT !.pc = "create", !.retryCount = boot.retryCount + 1,
                            !.elapsed = boot.elapsed + RETRY_INTERVAL]
    /\ UNCHANGED <<users, nextUserId, tokens, nextTokenId, now, rf, rg, lg, ar, issued, lineage, revoked, last, db, ce, cu>>

\* the store becomes reachable, at any moment of the startup
StoreUp ==
    /\ db = "down"
    /\ db' = "up"
    /\ UNCHANGED <<users, nextUserId, tokens, nextTokenId, now, rf, rg, lg, ar, issued, lineage, revoked, last, boot, ce, cu>>

BootStep ==
    BootCreate \/ connectWithRetry \/ ReconnectDelay \/ BootListen \/ BootstrapCatch \/ BootstrapRetry

InitBoot ==
    /\ InitStore
    /\ boot = Bootstrap
    /\ db \in {"down", "up"}

NextBoot ==
    \/ BootCreate
    \/ connectWithRetry
    \/ ReconnectDelay
    \/ BootListen
    \/ BootstrapCatch
    \/ BootstrapRetry
    \/ StoreUp

\* the event loop runs a pending continuation or timer: a startup step that
\* stays possible is taken
SpecBoot == InitBoot /\ [][NextBoot]_vars /\ WF_vars(BootStep)

\* no retry of bootstrap is left
Exhausted == boot.pc \in {"caught", "exited"} /\ boot.retryCount = MAX_RETRY_ATTEMPTS

\* C21: startup is bounded and ends. One call of connectWithRetry makes at
\* most maxReconnectAttempts attempts, one reconnect interval before each but
\* the first, and rethrows only from a failed attempt that leaves no retry;
\* bootstrap is re-run at most MAX_RETRY_ATTEMPTS times, one retry interval
\* before each re-run, and the process exits, with code 1, only when no re-run
\* is left. While the store stays unreachable the startup ends in that exit;
\* once the store is reachable and a re-run or an attempt is still left, the
\* startup ends listening, with reconnectAttempts 0.
C21_StartupBounded ==
    /\ [](/\ boot.attempts <= maxReconnectAttempts
          /\ boot.retryCount <= MAX_RETRY_ATTEMPTS
          /\ boot.pc = "connect" => boot.delays = boot.attempts
          /\ boot.elapsed <= (MAX_RETRY_ATTEMPTS + 1) * (maxReconnectAttempts - 1) * reconnectInterval
                               + boot.retryCount * RETRY_INTERVAL
          /\ boot.elapsed >= boot.delays * reconnectInterval + boot.retryCount * RETRY_INTERVAL
          /\ boot.pc = "exited" <=> boot.exitCode = 1
          /\ boot.pc = "exited" => Exhausted /\ boot.reconnectAttempts >= maxReconnectAttempts
          /\ boot.pc \in {"connected", "listening"} => boot.reconnectAttempts = 0)
    /\ [][/\ (boot.pc = "connect" /\ boot'.pc = "caught")
               => db = "down" /\ boot'.reconnectAttempts >= maxReconnectAttempts
          /\ (boot.pc = "connect" /\ boot'.pc = "delay")
               => db = "down" /\ boot'.reconnectAttempts < maxReconnectAttempts
          /\ boot'.retryCount # boot.retryCount
               => /\ boot'.retryCount = boot.retryCount + 1
                  /\ boot'.elapsed = boot.elapsed + RETRY_INTERVAL]_vars
    /\ <>(boot.pc \in {"listening", "exited"})
    /\ <>(db = "up" \/ boot.pc = "exited")
    /\ (db = "up" /\ ~Exhausted) ~> (boot.pc = "listening" /\ boot.reconnectAttempts = 0)

\* C21 witness: the store never came up, every attempt and every re-run was
\* used, and the process has exited with code 1
C21_Witness ==
    /\ db = "down"
    /\ boot.pc = "exited" /\ boot.exitCode = 1
    /\ boot.retryCount = MAX_RETRY_ATTEMPTS
    /\ boot.reconnectAttempts >= maxReconnectAttempts

\* ---------------------------------------------------------------- AuthService.calculateExpirationDate
\* A string is the sequence of its characters. A number is a record: Num(v)
\* for the integer v, NaN for the value parseInt gives when no digit can be
\* read, which is also the time value of an invalid Date.
Num(v) == [nan |-> FALSE, v |-> v]
NaN == [nan |-> TRUE, v |-> 0]

DigitChars == <<"0", "1", "2", "3", "4", "5", "6", "7", "8", "9">>
IsDigit(c) == \E i \in 1..10 : DigitChars[i] = c
DigitValue(c) == (CHOOSE i \in 1..10 : DigitChars[i] = c) - 1

\* String(n) of a non-negative integer: its decimal numeral
RECURSIVE Numeral(_)
Numeral(n) == IF n < 10 THEN <<DigitChars[n + 1]>> ELSE Numeral(n \div 10) \o <<DigitChars[(n % 10) + 1]>>

\* expiresIn.slice(-1) and expiresIn.slice(0, -1)
LastChar(str) == IF str = <<>> THEN "" ELSE str[Len(str)]
AllButLast(str) == IF str = <<>> THEN <<>> ELSE SubSeq(str, 1, Len(str) - 1)

\* the digits parseInt reads: the longest prefix of decimal digits
RECURSIVE DigitPrefix(_)
DigitPrefix(str) ==
    IF str = <<>> \/ ~IsDigit(Head(str)) THEN <<>> ELSE <<Head(str)>> \o DigitPrefix(Tail(str))

RECURSIVE DigitsValue(_)
DigitsValue(ds) ==
    IF ds = <<>> THEN 0 ELSE 10 * DigitsValue(SubSeq(ds, 1, Len(ds) - 1)) + DigitValue(ds[Len(ds)])

RECURSIVE SkipSpace(_)
SkipSpace(str) == IF str # <<>> /\ Head(str) = " " THEN SkipSpace(Tail(str)) ELSE str

\* parseInt(str, 10): leading white space is skipped, a sign is taken, the
\* digits that follow are read and the rest is ignored; NaN without a digit
parseInt(str) ==
    LET t == SkipSpace(str)
        negative == t # <<>> /\ Head(t) = "-"
        body == IF t # <<>> /\ Head(t) \in {"-", "+"} THEN Tail(t) ELSE t
        ds == DigitPrefix(body)
    IN IF ds = <<>> THEN NaN
       ELSE IF negative THEN Num(0 - DigitsValue(ds)) ELSE Num(DigitsValue(ds))

\* new Date(now.getTime() + value * ms), as its time value. Time values are
\* kept in seconds, the unit of the clock: the factor 1000 that every term of
\* the code's sums carries is left out.
DateAfter(nowS, value, seconds) == IF value.nan THEN NaN ELSE Num(nowS + value.v * seconds)

\* variant: a final 's' is read as seconds
calculateExpirationDateWithSeconds(expiresIn, nowS) ==
    LET unit == LastChar(expiresIn)
        value == parseInt(AllButLast(expiresIn))
    IN CASE unit = "d" -> DateAfter(nowS, value, 24 * 60 * 60)
         [] unit = "h" -> DateAfter(nowS, value, 60 * 60)
         [] unit = "m" -> DateAfter(nowS, value, 60)
         [] unit = "s" -> DateAfter(nowS, value, 1)
         [] OTHER -> Num(nowS + 7 * 24 * 60 * 60)

\* calculateExpirationDate(expiresIn) called at the second nowS
calculateExpirationDateAt(expiresIn, nowS) ==
    LET unit == LastChar(expiresIn)
        value == parseInt(AllButLast(expiresIn))
    IN CASE unit = "d" -> DateAfter(nowS, value, 24 * 60 * 60)
         [] unit = "h" -> DateAfter(nowS, value, 60 * 60)
         [] unit = "m" -> DateAfter(nowS, value, 60)
         [] OTHER -> Num(nowS + 7 * 24 * 60 * 60)

\* the lifetimes asked for: n of a unit, written as the numeral of n followed
\* by the unit's character
LifetimeCounts == {1, 7, 15, 30, 365}
LifetimeUnits == {"d", "h", "m", "s", "w", "y", "0"}

\* strings that are not a count followed by a character (n is 0 for them)
OddLifetimes == {<<>>, <<"d">>, <<"-", "1", "d">>, <<"1", ".", "5", "h">>, <<" ", "2", "m">>, <<"0", "7", "d">>}

Calculate ==
    /\ \/ \E n \in LifetimeCounts, unit \in LifetimeUnits :
            ce' = [pc |-> "done", n |-> n, expiresIn |-> Numeral(n) \o <<unit>>, at |-> now,
                   result |-> calculateExpirationDateAt(Numeral(n) \o <<unit>>, now)]
       \/ \E str \in OddLifetimes :
            ce' = [pc |-> "done", n |-> 0, expiresIn |-> str, at |-> now,
                   result |-> calculateExpirationDateAt(str, now)]
    /\ last' = NoOp
    /\ UNCHANGED <<users, nextUserId, tokens, nextTokenId, now, rf, rg, lg, ar, issued, lineage, revoked, boot, db, cu>>

NextExpiry == Tick \/ Calculate

SpecExpiry == Init /\ [][NextExpiry]_vars

\* C22: for a lifetime written as a positive count n and a final character,
\* calculateExpirationDate gives now + n days for 'd', now + n hours for 'h',
\* now + n minutes for 'm' and now + 7 days for any other final character,
\* and the result is later than now.
C22_ExpirationDateByUnit ==
    (ce.pc = "done" /\ ce.n > 0) =>
        /\ ~ce.result.nan
        /\ LastChar(ce.expiresIn) = "d" => ce.result.v = ce.at + ce.n * 86400
        /\ LastChar(ce.expiresIn) = "h" => ce.result.v = ce.at + ce.n * 3600
        /\ LastChar(ce.expiresIn) = "m" => ce.result.v = ce.at + ce.n * 60
        /\ LastChar(ce.expiresIn) \notin {"d", "h", "m"} => ce.result.v = ce.at + 7 * 86400
        /\ ce.result.v > ce.at

\* C22 witness: "30s", asked for after the clock has advanced, comes out as
\* seven days from now
C22_Witness ==
    /\ ce.pc = "done" /\ ce.n = 30 /\ ce.at > 0
    /\ ce.expiresIn = <<"3", "0", "s">>
    /\ ce.result = Num(ce.at + 604800)

\* ---------------------------------------------------------------- users routes
\* SpecUsers: requests to the users routes between logins and registrations;
\* the user table is written by the handlers only
NextUsers ==
    \/ Tick
    \/ AccessLogin
    \/ RegisterAdmin
    \/ RegisterExists
    \/ RegisterInsert
    \/ AccessBegin
    \/ AccessHandle

SpecUsers == Init /\ [][NextUsers]_vars

\* the pipe and the handler of PATCH /users/:id run in this step
Updating == ar.pc = "handler" /\ ar.route = "PATCH /users/:id" /\ ar'.pc = "done"

\* C23: the role of a stored user changes only in an update whose principal
\* is stored as ADMIN, and an update that carries a role and whose principal
\* is not ADMIN ends with Forbidden and leaves the user table as it was.
C23_RoleChangedOnlyByAdmin ==
    [][/\ \A u \in users, v \in users' :
            (u.id = v.id /\ u.role # v.role)
              => /\ Updating /\ ar.target = u.id
                 /\ \E principal \in UserById(users, ar.user.id) : principal.role = "ADMIN"
       /\ (Updating /\ ar.role # "" /\ ar.user.role # "ADMIN")
            => ar'.result = "Forbidden" /\ users' = users]_vars

\* the handler of DELETE /users/:id runs in this step
Removing == ar.pc = "handler" /\ ar.route = "DELETE /users/:id" /\ ar'.pc = "done"

\* C24: remove(id, currentUserId) with id = currentUserId fails and deletes
\* nothing, whoever the principal is and whatever the store would do with
\* the delete; a DELETE /users/:id request whose :id is the caller's own id
\* ends in an error with every user row and every refresh-token row in place.
C24_NoSelfRemoval ==
    /\ [](\A u \in users, restricted \in BOOLEAN :
            LET rm == usersRemove(users, tokens, UserView(u), u.id, restricted) IN
            rm.result # "ok" /\ rm.users = users /\ rm.rows = tokens)
    /\ [][(Removing /\ ar.target = ar.user.id)
            => /\ ar'.result # "ok"
               /\ users' = users /\ tokens' = tokens
               /\ UserById(users', ar.user.id) # {}]_vars

\* C24 witness: the ADMIN's DELETE on its own id has failed (the other user
\* of the requests owns no row, so no refused delete of that user ends this
\* way) and the ADMIN is still stored
C24_Witness ==
    /\ ar.pc = "done" /\ ar.route = "DELETE /users/:id"
    /\ ar.result = "InternalServerError"
    /\ ar.token \in AccessIssued
    /\ \A r \in tokens : r.userId = ar.token.sub
    /\ \E u \in UserById(users, ar.token.sub) : u.role = "ADMIN"

\* ---------------------------------------------------------------- token strings
\* C25: whatever logins and refreshes have run, no two stored rows hold the
\* same token string, and the row a rotation inserts holds a string other
\* than the one of the row it deletes.
C25_TokenStringsDistinct ==
    /\ [](\A r1, r2 \in tokens : r1.token = r2.token => r1.id = r2.id)
    /\ [][\A p \in RefreshCalls :
            Rotated(p) => \A r \in tokens' \ tokens : r.token # rf[p].rec.token]_vars

\* ---------------------------------------------------------------- logout against refresh
\* SpecLogoutAll: logoutAllDevices while a refreshTokens call is between its
\* statements; the store does not fail
RefreshCommitted == RefreshRotate(1, 0)

NextLogoutAll ==
    \/ Tick
    \/ Login
    \/ RefreshDirect
    \/ RefreshFind
    \/ RefreshExpire
    \/ RefreshCommitted
    \/ LogoutAll

SpecLogoutAll == Init /\ [][NextLogoutAll]_vars

\* the refreshTokens call p has read its row and not yet sent its write
InFlight(p) == rf[p].pc \in {"rotate", "expired"}

\* C26: logoutAllDevices(u) against a refreshTokens call on a token of u.
\* When logoutAllDevices(u) returns, u owns no row and no token handed out to
\* u is accepted, the row a call in flight has read included; a call in
\* flight whose row is gone ends in an error and writes nothing, so a
\* rotation commits only on a row that no logout-all has removed; and in
\* every state a session that was ended holds no row.
C26_LogoutAllAgainstRefresh ==
    /\ [][\A uid \in UserIds :
            logoutAllDevices(uid) =>
              /\ RowsByUser(tokens', uid) = {}
              /\ \A t \in issued : t.sub = uid => ~Accepted(tokens', t, now')
              /\ \A p \in RefreshCalls :
                   (InFlight(p) /\ rf[p].rec.userId = uid) => rf[p].rec \notin tokens']_vars
    /\ [][\A p \in RefreshCalls :
            (InFlight(p) /\ rf'[p].pc = "done" /\ rf[p].rec \notin tokens)
              => /\ rf'[p].result = "RecordNotFound"
                 /\ tokens' = tokens /\ issued' = issued]_vars
    /\ [](\A sid \in revoked : RowsOfSession(tokens, sid) = {})

\* C26 witness: a call that had read its row before logoutAllDevices ran has
\* ended in the store's error, and the user owns no row
C26_Witness ==
    /\ rf[1].pc = "done" /\ rf[1].result = "RecordNotFound"
    /\ rf[1].newToken # NoToken
    /\ lineage[rf[1].rec.id] \in revoked
    /\ RowsByUser(tokens, rf[1].rec.userId) = {}

\* C27: logout(u, t) against refreshTokens(t). Whichever call's write comes
\* first, once both are done the session the token t belonged to holds no
\* row: a logout whose delete comes after the rotation of t has committed
\* leaves no row of that session, and a rotation does not commit on a row a
\* logout has removed.
C27_LogoutAgainstRefresh ==
    /\ [][\A p \in RefreshCalls, uid \in UserIds :
            (/\ rf[p].pc = "done" /\ rf[p].result = "ok"
             /\ rf[p].rec.userId = uid
             /\ logout(uid, rf[p].presented))
              => RowsOfSession(tokens', lineage[rf[p].rec.id]) = {}]_vars
    /\ [][\A p \in RefreshCalls : Rotated(p) => lineage[rf[p].rec.id] \notin revoked]_vars

\* ---------------------------------------------------------------- POST /auth/logout
\* SpecLogout: logout requests of clients that hold the tokens of a login,
\* as cookies or for the Authorization header, and refresh requests
LogoutBegin ==
    \E cookies \in issued \cup {NoToken}, bearer \in AccessIssued \cup issued \cup {NoToken} :
        LogoutRequest(IF cookies = NoToken THEN NoToken ELSE AccessOf(cookies), cookies,
                      IF bearer = NoToken THEN "" ELSE "Bearer", bearer)

LogoutRefresh == \E t \in issued : RefreshRequest(1, Request(NoToken, "Bearer", t))

NextLogout ==
    \/ Tick
    \/ Login
    \/ LogoutBegin
    \/ AccessHandle
    \/ LogoutRefresh
    \/ RefreshFind
    \/ RefreshCommit

SpecLogout == Init /\ [][NextLogout]_vars

\* the handler of POST /auth/logout returns success in this step
LoggedOut ==
    /\ ar.pc = "handler" /\ ar.route = LogoutRoute.name
    /\ ar'.pc = "done" /\ ar'.result \in {"ok", "okNoTokenFound"}

\* C28: when POST /auth/logout returns success, the refresh token of the
\* session the request was made for is not accepted by POST /auth/refresh
\* any more: the token of the request's refresh_token cookie for a client
\* that sends cookies, and the token handed out with the access token of the
\* Authorization header for a client that sends none.
C28_LogoutEndpointEndsSession ==
    [][LoggedOut =>
         \A t \in issued :
            (\/ ar.refresh = t
             \/ ar.refresh = NoToken /\ ar.scheme = "Bearer" /\ ar.token = AccessOf(t))
              => /\ ~Accepted(tokens', t, now')
                 /\ JwtRefreshGuardRequest(users', tokens', Request(NoToken, "Bearer", t), now') # "pass"]_vars

\* ---------------------------------------------------------------- public callers
\* SpecPublic: the calls open to a caller who is anonymous or whose role is
\* USER: register (@Public), login, refresh and logout; every stored user of
\* Init has the role USER
PublicRegister == \E raw \in RawEmails, role \in RoleInputs : RegisterStart(1, raw, role)
PublicExists == RegisterCheck(1)
PublicInsert == RegisterCreate(1)

NextPublic ==
    \/ PublicRegister
    \/ PublicExists
    \/ PublicInsert
    \/ Login
    \/ RefreshDirect
    \/ RefreshFind
    \/ RefreshCommitted
    \/ Logout

SpecPublic == Init /\ [][NextPublic]_vars

\* C29: no sequence of register, login, refresh and logout calls by callers
\* who are anonymous or whose role is USER leaves a stored user whose role is
\* ADMIN; the register operation creates users with the role USER only
C29_PublicCallsCreateNoAdmin ==
    \A u \in users : u.role # "ADMIN"


\* ---------------------------------------------------------------- UsersService.create
\* CreateUserDto.email carries the same @Transform as RegisterDto.email; the
\* call enters the interactive transaction
usersCreateStart(q, raw) ==
    /\ cu[q].pc \in {"idle", "done"}
    /\ cu' = [cu EXCEPT ![q] = [pc |-> "check", email |-> TrimLower(raw), result |-> "none"]]
    /\ UNCHANGED <<users, nextUserId, tokens, nextTokenId, now, rf, rg, lg, ar, issued, lineage, revoked, last, boot, db, ce>>

\* the error the catch block of create lets out: only a
\* PrismaClientKnownRequestError with code P2002 becomes a ConflictException,
\* everything else InternalServerErrorException('Could not create user')
usersCreateCatch(error) == IF error = "P2002" THEN "Conflict" ELSE "InternalServerError"

\* inside the transaction: findUnique by email and the ConflictException
\* thrown in the try block, which the catch block of the same call receives
usersCreateCheck(q) ==
    /\ cu[q].pc = "check"
    /\ cu' = IF existingUser(users, cu[q].email) # {}
             THEN [cu EXCEPT ![q].pc = "done",
                             ![q].result = usersCreateCatch("ConflictException")]
             ELSE [cu EXCEPT ![q].pc = "create"]
    /\ UNCHANGED <<users, nextUserId, tokens, nextTokenId, now, rf, rg, lg, ar, issued, lineage, revoked, last, boot, db, ce>>

\* user.create inside the transaction, the commit, and the return or the catch
usersCreateInsert(q) ==
    /\ cu[q].pc = "create"
    /\ nextUserId <= MaxUsers
    /\ IF EmailTaken(users, cu[q].email)
       THEN /\ cu' = [cu EXCEPT ![q].pc = "done", ![q].result = usersCreateCatch("P2002")]
            /\ UNCHANGED <<users, nextUserId>>
       ELSE /\ users' = users \cup
                 { [id |-> nextUserId, email |-> cu[q].email, password |-> Hash("pw"),
                    role |-> DefaultRole, lastLogin |-> -1] }
            /\ nextUserId' = nextUserId + 1
            /\ cu' = [cu EXCEPT ![q].pc = "done", ![q].result = "ok"]
    /\ UNCHANGED <<tokens, nextTokenId, now, rf, rg, lg, ar, issued, lineage, revoked, last, boot, db, ce>>

\* SpecCreate: create calls that overlap, between ticks of the clock
CreateBegin == \E q \in CreateCalls, raw \in RawEmails : usersCreateStart(q, raw)
CreateExists == \E q \in CreateCalls : usersCreateCheck(q)
CreateInsert == \E q \in CreateCalls : usersCreateInsert(q)

NextCreate == Tick \/ CreateBegin \/ CreateExists \/ CreateInsert

SpecCreate == Init /\ [][NextCreate]_vars

\* C30: UsersService.create with an email that belongs to a stored user fails
\* with Conflict, not with a generic internal error, and creates no row,
\* whether the existence check inside the transaction or the unique
\* constraint of the store finds the duplicate
C30_CreateDuplicateEmailIsConflict ==
    [][\A q \in CreateCalls :
          (/\ cu[q].pc \in {"check", "create"}
           /\ cu'[q].pc = "done"
           /\ EmailTaken(users, cu[q].email))
             => /\ cu'[q].result = "Conflict"
                /\ users' = users]_vars

==============================================================================
